---- MODULE Spec2Model ----
(***************************************************************************)
(* A model of the b402 Python SDK: B402.pay, B402.check_approval and       *)
(* B402.setup (client.py), the allowance utilities check_approval,         *)
(* approve_token and ensure_approval (approval.py) and the authorization   *)
(* signer process_payment (wallet.py).                                     *)
(*                                                                         *)
(* Python integers are unbounded and the amounts of the program are of the *)
(* order of 10^18 .. 2^256, so a non-negative integer is modelled as the   *)
(* sequence of its base-1000 limbs, least significant first, without       *)
(* leading zero limbs (the empty sequence is 0).  Python floats are        *)
(* IEEE-754 doubles and are modelled as a sign, a significand of at most   *)
(* 53 bits and a binary exponent, rounded half-to-even, so that            *)
(* int(float(amount) * 10**18) is computed as the program computes it.     *)
(* The operators avoid deep recursion: carries are looked ahead, powers    *)
(* are taken by squaring and a division by 2^n is a multiplication by 5^n  *)
(* followed by a decimal shift.  An intermediate value that is used more   *)
(* than once is passed on as an argument.                                  *)
(***************************************************************************)
EXTENDS Integers, Sequences, FiniteSets, TLC

(***************************************************************************)
(* Unbounded naturals (Python int, non-negative part).                     *)
(***************************************************************************)
Zero == <<>>

One == <<1>>

Limb(a, i) == IF i >= 1 /\ i <= Len(a) THEN a[i] ELSE 0

\* without leading zero limbs (the most significant limbs are last)
Norm(a) ==
    LET N == {i \in 1..Len(a) : a[i] # 0}
    IN  IF N = {} THEN <<>>
        ELSE SubSeq(a, 1, CHOOSE i \in N : \A j \in N : j <= i)

\* the highest position at which a and b differ (0 when they are equal)
TopDiff(a, b) ==
    LET n == IF Len(a) >= Len(b) THEN Len(a) ELSE Len(b)
        D == {i \in 1..n : Limb(a, i) # Limb(b, i)}
    IN  IF D = {} THEN 0 ELSE CHOOSE i \in D : \A j \in D : j <= i

Lt(a, b) == LET t == TopDiff(a, b) IN t # 0 /\ Limb(a, t) < Limb(b, t)

Le(a, b) == ~Lt(b, a)

Ge(a, b) == ~Lt(a, b)

Max(a, b) == IF Ge(a, b) THEN a ELSE b

\* a + b: the carry into position i comes from the nearest lower position
\* whose limb sum is not 999, when that sum is 1000 or more
Add(a, b) ==
    LET n == (IF Len(a) >= Len(b) THEN Len(a) ELSE Len(b)) + 1
        s == [i \in 1..n |-> Limb(a, i) + Limb(b, i)]
        Carry(i) ==
            LET J == {j \in 1..(i - 1) : s[j] # 999}
            IN  J # {} /\ s[CHOOSE j \in J : \A k \in J : k <= j] >= 1000
    IN  Norm([i \in 1..n |-> (s[i] + IF Carry(i) THEN 1 ELSE 0) % 1000])

RECURSIVE SumF(_, _, _)
SumF(f, lo, hi) ==
    IF lo > hi THEN 0
    ELSE IF lo = hi THEN f[lo]
    ELSE SumF(f, lo, (lo + hi) \div 2) + SumF(f, (lo + hi) \div 2 + 1, hi)

\* a * 1000^m
ShiftLimbs(a, m) == IF a = <<>> THEN <<>> ELSE [i \in 1..m |-> 0] \o a

\* a * b: the column sums of the limb products, then their three base-1000
\* digits added up
Columns(a, b) ==
    [k \in 1..(Len(a) + Len(b)) |->
        SumF([i \in 1..Len(a) |-> a[i] * Limb(b, k + 1 - i)], 1, Len(a))]

AddColumns(col) ==
    Add(Add(Norm([k \in 1..Len(col) |-> col[k] % 1000]),
            ShiftLimbs(Norm([k \in 1..Len(col) |-> (col[k] \div 1000) % 1000]), 1)),
        ShiftLimbs(Norm([k \in 1..Len(col) |-> col[k] \div 1000000]), 2))

Mul(a, b) == IF a = <<>> \/ b = <<>> THEN <<>> ELSE AddColumns(Columns(a, b))

\* b^n by squaring
RECURSIVE Pow(_, _)
Pow(b, n) ==
    IF n = 0 THEN One
    ELSE Mul(Pow(Mul(b, b), n \div 2), IF n % 2 = 1 THEN b ELSE One)

Pow2(n) == Pow(<<2>>, n)

Pow5(n) == Pow(<<5>>, n)

Ten(r) == IF r = 0 THEN 1 ELSE IF r = 1 THEN 10 ELSE 100

Pow10(n) == ShiftLimbs(<<Ten(n % 3)>>, n \div 3)

\* a * 10^n
MulPow10(a, n) == ShiftLimbs(Mul(a, <<Ten(n % 3)>>), n \div 3)

\* a \div 10^n
DivPow10(a, n) ==
    LET m == n \div 3
        t == Ten(n % 3)
    IN  Norm([i \in 1..(Len(a) - m) |->
                 (Limb(a, m + i) \div t) + (Limb(a, m + i + 1) % t) * (1000 \div t)])

\* a % 10^n
ModPow10(a, n) ==
    LET m == n \div 3
    IN  Norm([i \in 1..(m + 1) |->
                 IF i <= m THEN Limb(a, i) ELSE Limb(a, m + 1) % Ten(n % 3)])

Odd(a) == a # <<>> /\ a[1] % 2 = 1

Double(a) == Add(a, a)

\* p <= a < 2p
Within(a, p) == Le(p, a) /\ Lt(a, Double(p))

\* the number of bits of a: 0 for 0, else e with 2^(e-1) <= a < 2^e.  A
\* number of L limbs is at least 1000^(L-1) and below 1000^L.
BitLen(a) ==
    IF a = <<>> THEN 0
    ELSE CHOOSE e \in (((Len(a) - 1) * 9965) \div 1000 + 1)
                      ..((Len(a) * 9966) \div 1000 + 1) :
             Within(a, Pow2(e - 1))

\* a * 2^n
MulPow2(a, n) == Mul(a, Pow2(n))

\* a \div 2^n, as (a * 5^n) \div 10^n
DivPow2(a, n) == DivPow10(Mul(a, Pow5(n)), n)

\* the quotient q of a division by d, with twice its remainder r2, rounded
\* to the nearest integer, ties to even
RoundQuot(q, r2, d) ==
    IF Lt(d, r2) \/ (r2 = d /\ Odd(q)) THEN Add(q, One) ELSE q

\* x / 10^n rounded to the nearest integer, ties to even
RoundDiv10(x, n) == RoundQuot(DivPow10(x, n), Double(ModPow10(x, n)), Pow10(n))

\* n / (2^j * 10^k) rounded to the nearest integer, ties to even
RoundDiv(n, j, k) == RoundDiv10(Mul(n, Pow5(j)), j + k)

(***************************************************************************)
(* Python float: an IEEE-754 double.  A finite value is                    *)
(* (-1)^neg * man * 2^exp with man <= 2^53; arithmetic rounds to 53        *)
(* significant bits, ties to even.                                         *)
(***************************************************************************)
Two53 == Pow2(53)

Two52 == Pow2(52)

FloatZero(neg) == [kind |-> "fin", neg |-> neg, man |-> Zero, exp |-> 0]

FloatInf(neg) == [kind |-> "inf", neg |-> neg, man |-> Zero, exp |-> 0]

FloatNaN == [kind |-> "nan", neg |-> FALSE, man |-> Zero, exp |-> 0]

\* a result whose magnitude is 2^1024 or more overflows to infinity
\* (results below the normal range do not arise from the amounts modelled)
Finite(neg, man, exp) ==
    IF man = Zero THEN FloatZero(neg)
    ELSE IF exp > 970 /\ BitLen(man) + exp > 1024 THEN FloatInf(neg)
    ELSE [kind |-> "fin", neg |-> neg, man |-> man, exp |-> exp]

\* the double nearest to the integer p * 2^e: p, of bl bits, rounded to 53
RoundBits(neg, p, e, bl) ==
    IF bl <= 53 THEN Finite(neg, p, e)
    ELSE Finite(neg, RoundDiv(p, bl - 53, 0), e + (bl - 53))

RoundInt(neg, p, e) == RoundBits(neg, p, e, BitLen(p))

\* the double nearest to m / 10^k, where 2^(bl-1) <= m / 10^k < 2^bl: the
\* significand is m * 2^(53-bl) / 10^k rounded to an integer
RoundScaled(neg, m, k, bl) ==
    IF bl <= 53
    THEN Finite(neg, RoundDiv(MulPow2(m, 53 - bl), 0, k), bl - 53)
    ELSE Finite(neg, RoundDiv(m, bl - 53, k), bl - 53)

\* with t = BitLen(m) - BitLen(10^k), m / 10^k lies between 2^(t-1) and
\* 2^(t+1)
RatioBits(m, k, t) ==
    IF (IF t >= 0 THEN Ge(m, MulPow2(Pow10(k), t))
                  ELSE Ge(MulPow2(m, 0 - t), Pow10(k)))
    THEN t + 1 ELSE t

RoundRatio10(neg, m, k) ==
    IF m = Zero THEN FloatZero(neg)
    ELSE RoundScaled(neg, m, k, RatioBits(m, k, BitLen(m) - BitLen(Pow10(k))))

\* float(n) for a Python int n >= 0
IntToFloat(n) == RoundInt(FALSE, n, 0)

\* x * y for two floats
FloatMul(x, y) ==
    IF x.kind = "nan" \/ y.kind = "nan" THEN FloatNaN
    ELSE IF x.kind = "inf" \/ y.kind = "inf"
    THEN (IF (x.kind = "fin" /\ x.man = Zero) \/ (y.kind = "fin" /\ y.man = Zero)
          THEN FloatNaN
          ELSE FloatInf(x.neg # y.neg))
    ELSE RoundInt(x.neg # y.neg, Mul(x.man, y.man), x.exp + y.exp)

\* x / 10**k for a Python int x: the correctly rounded quotient
IntTrueDiv10(x, k) == RoundRatio10(x.neg, x.mag, k)

\* A Python int with its sign
SInt(neg, mag) == [neg |-> neg /\ mag # Zero, mag |-> mag]

\* int(x) for a float x: truncation towards zero; nan and inf raise
FloatToInt(x) ==
    IF x.kind = "nan" THEN [raises |-> "ValueError", val |-> SInt(FALSE, Zero)]
    ELSE IF x.kind = "inf" THEN [raises |-> "OverflowError", val |-> SInt(FALSE, Zero)]
    ELSE [raises |-> "",
          val |-> SInt(x.neg, IF x.exp >= 0 THEN MulPow2(x.man, x.exp)
                                           ELSE DivPow2(x.man, 0 - x.exp))]

(***************************************************************************)
(* Strings that are parsed or formatted are sequences of one-character     *)
(* strings.  float(s) accepts [sign] digits [. digits] [e [sign] digits],  *)
(* [sign] inf, [sign] infinity and [sign] nan, and raises ValueError on    *)
(* anything else; the result is correctly rounded.  (Surrounding white     *)
(* space and digit-group underscores, which float() also accepts, are not  *)
(* in the alphabet of the amounts of this model.)                          *)
(***************************************************************************)
DigitChars == <<"0", "1", "2", "3", "4", "5", "6", "7", "8", "9">>

IsDigit(c) == \E d \in 1..10 : DigitChars[d] = c

DigitVal(c) == (CHOOSE d \in 1..10 : DigitChars[d] = c) - 1

AllDigits(s) == \A i \in 1..Len(s) : IsDigit(s[i])

\* the index of the first character of s that is in C, 0 when there is none
FirstIdx(s, C) ==
    LET I == {i \in 1..Len(s) : s[i] \in C}
    IN  IF I = {} THEN 0 ELSE CHOOSE i \in I : \A j \in I : i <= j

\* the number written by a string of digits
DigitsToNat(s) ==
    LET D(p) == IF p >= 1 THEN DigitVal(s[p]) ELSE 0
    IN  Norm([i \in 1..((Len(s) + 2) \div 3) |->
                 D(Len(s) - 3 * (i - 1))
                 + 10 * D(Len(s) - 3 * (i - 1) - 1)
                 + 100 * D(Len(s) - 3 * (i - 1) - 2)])

HasSign(s) == s # <<>> /\ s[1] \in {"+", "-"}

Unsigned(s) == IF HasSign(s) THEN Tail(s) ELSE s

IsNeg(s) == s # <<>> /\ s[1] = "-"

\* a small integer written as [sign] digits
SmallInt(s) ==
    LET u == Unsigned(s)
        RECURSIVE Val(_)
        Val(n) == IF n = 0 THEN 0 ELSE 10 * Val(n - 1) + DigitVal(u[n])
    IN  IF IsNeg(s) THEN 0 - Val(Len(u)) ELSE Val(Len(u))

\* [sign] digits [. digits] [e [sign] digits], already split
DecimalFloat(neg, ip, fp, expo) ==
    IF ~(/\ AllDigits(ip) /\ AllDigits(fp) /\ Len(ip) + Len(fp) > 0
         /\ Unsigned(expo) # <<>> /\ AllDigits(Unsigned(expo)))
    THEN [raises |-> "ValueError", val |-> FloatNaN]
    ELSE [raises |-> "",
          val |-> IF SmallInt(expo) >= Len(fp)
                  THEN RoundInt(neg, MulPow10(DigitsToNat(ip \o fp),
                                              SmallInt(expo) - Len(fp)), 0)
                  ELSE RoundRatio10(neg, DigitsToNat(ip \o fp),
                                    Len(fp) - SmallInt(expo))]

\* the mantissa split at its point (dot = 0: there is none)
SplitPoint(neg, mant, dot, expo) ==
    DecimalFloat(neg,
                 IF dot = 0 THEN mant ELSE SubSeq(mant, 1, dot - 1),
                 IF dot = 0 THEN <<>> ELSE SubSeq(mant, dot + 1, Len(mant)),
                 expo)

\* the string split at its exponent mark (ePos = 0: there is none)
SplitExp(neg, u, ePos) ==
    SplitPoint(neg,
               IF ePos = 0 THEN u ELSE SubSeq(u, 1, ePos - 1),
               FirstIdx(IF ePos = 0 THEN u ELSE SubSeq(u, 1, ePos - 1), {"."}),
               IF ePos = 0 THEN <<"0">> ELSE SubSeq(u, ePos + 1, Len(u)))

UnsignedFloat(neg, u) ==
    IF u \in {<<"n", "a", "n">>}
    THEN [raises |-> "", val |-> FloatNaN]
    ELSE IF u \in {<<"i", "n", "f">>, <<"i", "n", "f", "i", "n", "i", "t", "y">>}
    THEN [raises |-> "", val |-> FloatInf(neg)]
    ELSE SplitExp(neg, u, FirstIdx(u, {"e", "E"}))

\* float(s)
StrToFloat(s) == UnsignedFloat(IsNeg(s), Unsigned(s))

\* the decimal digits of a number, most significant first
NatToDigits(n) ==
    IF n = Zero THEN <<"0">>
    ELSE LET all == [p \in 1..(3 * Len(n)) |->
                       DigitChars[((n[Len(n) - ((p - 1) \div 3)]
                                     \div Ten(2 - ((p - 1) % 3))) % 10) + 1]]
             nz  == {p \in 1..Len(all) : all[p] # "0"}
         IN  SubSeq(all, CHOOSE p \in nz : \A q \in nz : p <= q, Len(all))

\* format(x, ".4f") for a finite float x: x rounded to 4 decimals (ties to
\* even on the exact binary value), written [-] digits . 4 digits
PadTo5(ds) ==
    IF Len(ds) < 5 THEN [i \in 1..(5 - Len(ds)) |-> "0"] \o ds ELSE ds

PointBefore4(neg, w) ==
    (IF neg THEN <<"-">> ELSE <<>>)
    \o SubSeq(w, 1, Len(w) - 4) \o <<".">> \o SubSeq(w, Len(w) - 3, Len(w))

Format4f(x) ==
    PointBefore4(x.neg,
        PadTo5(NatToDigits(
            IF x.exp >= 0 THEN MulPow2(MulPow10(x.man, 4), x.exp)
                          ELSE RoundDiv(MulPow10(x.man, 4), 0 - x.exp, 0))))

(***************************************************************************)
(* Python ints with a sign, and their str() / int() conversions.           *)
(***************************************************************************)
IntOf(mag) == SInt(FALSE, mag)

\* x >= y
IntGe(x, y) ==
    IF x.neg /\ y.neg THEN Le(x.mag, y.mag)
    ELSE IF x.neg THEN FALSE
    ELSE IF y.neg THEN TRUE
    ELSE Ge(x.mag, y.mag)

\* max(x, y): the first argument when they are equal
IntMax(x, y) == IF IntGe(x, y) THEN x ELSE y

\* str(x)
IntStr(x) == (IF x.neg THEN <<"-">> ELSE <<>>) \o NatToDigits(x.mag)

\* int(s) for the decimal strings that str() writes
StrInt(s) == SInt(IsNeg(s), DigitsToNat(Unsigned(s)))

\* str(n) for a machine-size integer n
SmallStr(n) ==
    LET m == IF n < 0 THEN 0 - n ELSE n
        ds == [i \in 1..10 |-> DigitChars[((m \div (10 ^ (10 - i))) % 10) + 1]]
        nz == {i \in 1..10 : ds[i] # "0"}
    IN  (IF n < 0 THEN <<"-">> ELSE <<>>)
        \o (IF nz = {} THEN <<"0">>
            ELSE SubSeq(ds, CHOOSE i \in nz : \A j \in nz : i <= j, 10))

(***************************************************************************)
(* Static configuration of B402 (client.py) and the chain constants.       *)
(***************************************************************************)
Networks == {"mainnet", "testnet"}

\* B402.TOKENS[network].get(token): "" stands for None
TokenAddress(network, token) ==
    IF network = "mainnet"
    THEN (CASE token = "USD1" -> "0x8d0d000ee44948fc98c9b98a4fa4921476f08b0d"
            [] token = "USDT" -> "0x55d398326f99059fF775485246999027B3197955"
            [] token = "USDC" -> "0x8AC76a51cc950d9822D68b83fE1Ad97B32Cd580d"
            [] OTHER -> "")
    ELSE (CASE token = "USDT" -> "0x337610d27c682E347C9cD60BD4b3b107C9d34dDd"
            [] OTHER -> "")

RELAYERS(network) ==
    IF network = "mainnet" THEN "0xE1C2830d5DDd6B49E9c46EbE03a98Cb44CD8eA5a"
    ELSE "0x62150F2c3A29fDA8bCf22c0F22Eb17270FCBb78A"

\* 10**18
WEI == Pow10(18)

\* 10_000 * 10**18, the approval cap
DEFAULT_CAP == IntOf(MulPow10(<<10>>, 21))

\* 2**256 - 1
UINT256_MAX ==
    <<935, 639, 129, 913, 7, 584, 457, 39, 564, 640, 665, 984, 269, 853, 907,
      687, 8, 985, 570, 423, 195, 316, 237, 89, 792, 115>>

(***************************************************************************)
(* The inputs of the model.                                                *)
(***************************************************************************)
\* how many API calls a behaviour makes
MaxCalls == 2

\* PRIVATE_KEY in the environment: "" stands for unset (None) or empty
EnvKeys == {"", "0xnot-a-key", "0xKEY"}

\* Account.from_key(private_key) raises on a malformed key
KeyIsValid(k) == k = "0xKEY"

AddressOf(k) == "0xPayer"

\* the amount argument of pay, a decimal string
Amounts ==
    { <<"0", ".", "0", "1">>, <<"0", ".", "0", "7">>, <<"2", "0", "0", "0", "0">>,
      <<"0">>, <<"-", "1">>, <<"a", "b", "c">>, <<"i", "n", "f">> }

TokenArgs == {"USDT", "USD1", "DAI"}

\* to_checksum_address(recipient) raises on a string that is no address
Recipients == {"0xABCD", "not-an-address"}

AddressIsValid(a) == a # "not-an-address"

\* timeout_seconds: the default, none, and the two around -now
TimeoutArgs == {3600, 0, -1700000000, -1700000001}

\* what the chain holds as allowance(owner, relayer) before the first call:
\* 0, 10^16 - 1, 10^16 (0.01 token) and the cap
InitAllowances ==
    { IntOf(Zero), IntOf(<<999, 999, 999, 999, 999, 9>>),
      IntOf(<<0, 0, 0, 0, 0, 10>>), DEFAULT_CAP }

\* time.time() at signing
Clock == {1700000000}

\* secrets.token_hex(32): the values the random source may return
Nonces == {"0xn1", "0xn2"}

(***************************************************************************)
(* Exceptions, messages and results.  A Python str that is built by        *)
(* formatting is the sequence of its pieces; None is the empty sequence    *)
(* and a present optional value v is <<v>>.                                *)
(***************************************************************************)
None == <<>>

Some(v) == <<v>>

Exc(type, msg) == [type |-> type, msg |-> msg]

\* types.PaymentResult
PaymentResult(success, tx_hash, error, payer, a) ==
    [success |-> success, tx_hash |-> tx_hash, error |-> error, payer |-> payer,
     recipient |-> a.recipient, amount |-> a.amount, token |-> a.token]

\* what a step of pay hands back: the PaymentResult returned, or the
\* exception that leaves pay
Returned(r) == [escaped |-> None, result |-> Some(r)]

NoOut == [escaped |-> None, result |-> None]

\* a pay without its except clause: the exception leaves pay
Uncaught(e, a) == [escaped |-> Some(e), result |-> None]

\* an exception raised inside the try block of pay is caught by its except
\* clause: PaymentResult(success=False, error=str(e), payer="")
Caught(e, a) == Returned(PaymentResult(FALSE, None, Some(e.msg), "", a))

\* amount_wei = int(float(amount) * 10**18)
ToWei(f) ==
    IF f.raises # ""
    THEN [raises |-> f.raises, val |-> IntOf(Zero)]
    ELSE FloatToInt(FloatMul(f.val, IntToFloat(WEI)))

AmountWei(amount) == ToWei(StrToFloat(amount))

AMOUNT_WEI == [a \in Amounts |-> AmountWei(a)]

\* x / 10**18 formatted with :.4f
Readable(x) == Format4f(IntTrueDiv10(x, 18))

\* a check_approval that never finds the allowance sufficient
check_approval_never(allowance, min_amount) == <<FALSE, allowance>>

\* approval.check_approval, given what allowance(owner, spender).call() returns
check_approval(allowance, min_amount) ==
    <<IntGe(allowance, min_amount), allowance>>

\* the default of check_approval's min_amount parameter
DEFAULT_MIN_AMOUNT == IntOf(Zero)

\* an approval without the cap: the whole uint256 range
ApprovalAmountUnlimited(amount_wei) == IntOf(UINT256_MAX)

\* approval_amount = max(amount_wei, 10_000 * 10**18)
ApprovalAmount(amount_wei) == IntMax(amount_wei, DEFAULT_CAP)

\* a message that leaves the two amounts out
InsufficientMsgBare(current_allowance, amount_wei, token) ==
    <<"Insufficient allowance. Run: b402.setup('", token,
      "') or pay(..., auto_approve=True)">>

InsufficientMsg(current_allowance, amount_wei, token) ==
    <<"Insufficient allowance. Have: ">> \o Readable(current_allowance)
    \o <<" ", token, ", Need: ">> \o Readable(amount_wei)
    \o <<" ", token, ". Run: b402.setup('", token,
         "') or pay(..., auto_approve=True)">>

AutoApproveFailedMsg(e, token) ==
    <<"Auto-approval failed: ">> \o e.msg
    \o <<". Please run: b402.setup('", token, "')">>

(***************************************************************************)
(* wallet.process_payment: the EIP-712 authorization.  The signature is    *)
(* kept symbolic: who signed what under which domain.  The ABI encoder of  *)
(* encode_typed_data rejects a uint256 field that is negative or above     *)
(* 2**256 - 1.                                                             *)
(***************************************************************************)
Requirements(token_address, recipient, amount_wei, timeout_seconds, network) ==
    [scheme            |-> "exact",
     asset             |-> token_address,
     payTo             |-> recipient,
     maxAmountRequired |-> IntStr(amount_wei),
     maxTimeoutSeconds |-> timeout_seconds,
     network           |-> IF network = "mainnet" THEN "bsc" ELSE "bsc-testnet",
     relayerContract   |-> RELAYERS(network)]

IsUint256(x) == ~x.neg /\ Le(x.mag, UINT256_MAX)

process_payment(req, private_key, now, nonce) ==
    LET valid_before == now + req.maxTimeoutSeconds
        value  == StrInt(req.maxAmountRequired)
        auth   == [from |-> AddressOf(private_key), to |-> req.payTo,
                   value |-> value, validAfter |-> 0,
                   validBefore |-> valid_before, nonce |-> nonce]
        domain == [name |-> "B402", version |-> "1",
                   chainId |-> IF req.network = "bsc" THEN 56 ELSE 97,
                   verifyingContract |-> req.relayerContract]
    IN  IF ~AddressIsValid(req.payTo)
        THEN [raises |-> Some(Exc("ValueError", <<"invalid address: ", req.payTo>>)),
              payload |-> None]
        ELSE IF ~IsUint256(value) \/ valid_before < 0
        THEN [raises |-> Some(Exc("ValueOutOfBounds", <<"value out of bounds for uint256">>)),
              payload |-> None]
        ELSE [raises |-> None,
              payload |-> Some(
                [x402Version |-> 1,
                 scheme      |-> "exact",
                 network     |-> req.network,
                 token       |-> req.asset,
                 payload     |->
                   [authorization |->
                      [from        |-> auth.from,
                       to          |-> auth.to,
                       value       |-> IntStr(auth.value),
                       validAfter  |-> SmallStr(auth.validAfter),
                       validBefore |-> SmallStr(auth.validBefore),
                       nonce       |-> nonce],
                    signature |-> [signer |-> AddressOf(private_key),
                                   domain |-> domain, message |-> auth]]])]

(***************************************************************************)
(* The facilitator's HTTP responses.  raises: requests.post itself failed; *)
(* json = None: the body is no JSON object, so response.json() or the      *)
(* .get() on its value raises.  A key of the body that is absent is        *)
(* "missing" (a flag) or None (a string).                                  *)
(***************************************************************************)
NetworkError ==
    Exc("ConnectionError",
        <<"('Connection aborted.', RemoteDisconnected('Remote end closed connection without response'))">>)

Http(status, text, json) ==
    [raises |-> None, status |-> status, text |-> text, json |-> json]

HttpFailed == [raises |-> Some(NetworkError), status |-> 0, text |-> "", json |-> None]

VerifyBody(isValid, invalidReason) ==
    [isValid |-> isValid, invalidReason |-> invalidReason]

VerifyResponses ==
    { Http(200, "ok", Some(VerifyBody("true", None))),
      Http(200, "ok", Some(VerifyBody("false", Some("expired")))),
      Http(200, "ok", Some(VerifyBody("false", None))),
      Http(200, "ok", Some(VerifyBody("missing", None))),
      Http(200, "<html>", None),
      Http(500, "internal error", None),
      HttpFailed }

SettleBody(success, transaction, errorReason) ==
    [success |-> success, transaction |-> transaction, errorReason |-> errorReason]

SettleResponses ==
    { Http(200, "ok", Some(SettleBody("true", Some("0x1234"), None))),
      Http(200, "ok", Some(SettleBody("true", None, None))),
      Http(200, "ok", Some(SettleBody("false", None, Some("insufficient balance")))),
      Http(200, "ok", Some(SettleBody("false", Some("0x1234"), Some("reverted")))),
      Http(200, "ok", Some(SettleBody("false", None, None))),
      Http(200, "ok", Some(SettleBody("missing", None, None))),
      Http(200, "<html>", None),
      Http(502, "bad gateway", None),
      HttpFailed }

JsonError == Exc("JSONDecodeError", <<"Expecting value: line 1 column 1 (char 0)">>)

\* str(verify_data), str(settle_data)
ReprVerify(d) ==
    <<"{isValid: ", d.isValid, ", invalidReason: ">> \o d.invalidReason \o <<"}">>

ReprSettle(d) ==
    <<"{success: ", d.success, ", transaction: ">> \o d.transaction
    \o <<", errorReason: ">> \o d.errorReason \o <<"}">>

\* a dict is falsy when it is empty
IsEmptyDict(d) == d.success = "missing" /\ d.transaction = None /\ d.errorReason = None

(***************************************************************************)
(* approval.approve_token.  outcome says how far the chain calls get:      *)
(*   rpc_error     get_transaction_count / gas_price / send fails: no      *)
(*                 transaction is sent, the exception propagates           *)
(*   wait_timeout  the transaction is sent, wait_for_transaction_receipt   *)
(*                 times out and raises; the transaction stays pending     *)
(*   reverted      the transaction is mined with status 0; the receipt is  *)
(*                 returned and not looked at, so the hash is returned     *)
(*   confirmed     the transaction is mined with status 1                  *)
(***************************************************************************)
ApproveOutcomes == {"rpc_error", "wait_timeout", "reverted", "confirmed"}

\* an approve_token that returns the hash as soon as the transaction is sent
approve_token_nowait(amount, outcome) ==
    [raises |-> None, sent |-> TRUE, receipt |-> None, tx_hash |-> Some("0xapprovetx")]

approve_token(amount, outcome) ==
    IF ~IsUint256(amount)
    THEN [raises |-> Some(Exc("ValueOutOfBounds", <<"value out of bounds for uint256">>)),
          sent |-> FALSE, receipt |-> None, tx_hash |-> None]
    ELSE IF outcome = "rpc_error"
    THEN [raises |-> Some(Exc("ConnectionError", <<"rpc request failed">>)),
          sent |-> FALSE, receipt |-> None, tx_hash |-> None]
    ELSE IF outcome = "wait_timeout"
    THEN [raises |-> Some(Exc("TimeExhausted", <<"transaction is not in the chain after 120 seconds">>)),
          sent |-> TRUE, receipt |-> None, tx_hash |-> None]
    ELSE [raises |-> None, sent |-> TRUE,
          receipt |-> Some(IF outcome = "confirmed" THEN "status 1" ELSE "status 0"),
          tx_hash |-> Some("0xapprovetx")]

\* approve_token's amount parameter: None stands for 10_000 * 10**18
AmountOrDefault(amount) == IF amount = None THEN DEFAULT_CAP ELSE amount[1]

\* approval.ensure_approval, given what the allowance call returns and how
\* far the chain calls of approve_token get.  sent: the amounts of the
\* approval transactions sent; read: the allowance the chain returned
EnsureApprove(r, onchain) ==
    IF r.raises # None
    THEN [raises |-> r.raises, ret |-> None, read |-> Some(onchain),
          sent |-> IF r.sent THEN <<AmountOrDefault(None)>> ELSE <<>>,
          receipt |-> r.receipt]
    ELSE [raises |-> None,
          ret |-> Some([approved |-> TRUE, allowance |-> IntOf(UINT256_MAX),
                        tx_hash |-> r.tx_hash]),
          read |-> Some(onchain), sent |-> <<AmountOrDefault(None)>>,
          receipt |-> r.receipt]

EnsureChecked(chk, auto_approve, outcome) ==
    IF chk[1]
    THEN [raises |-> None,
          ret |-> Some([approved |-> TRUE, allowance |-> chk[2], tx_hash |-> None]),
          read |-> Some(chk[2]), sent |-> <<>>, receipt |-> None]
    ELSE IF ~auto_approve
    THEN [raises |-> None,
          ret |-> Some([approved |-> FALSE, allowance |-> IntOf(Zero), tx_hash |-> None]),
          read |-> Some(chk[2]), sent |-> <<>>, receipt |-> None]
    ELSE EnsureApprove(approve_token(AmountOrDefault(None), outcome), chk[2])

ensure_approval(private_key, rpc_ok, onchain, auto_approve, outcome) ==
    IF ~KeyIsValid(private_key)
    THEN [raises |-> Some(Exc("ValueError", <<"The private key must be exactly 32 bytes long">>)),
          ret |-> None, read |-> None, sent |-> <<>>, receipt |-> None]
    ELSE IF ~rpc_ok
    THEN [raises |-> Some(Exc("ConnectionError", <<"rpc request failed">>)),
          ret |-> None, read |-> None, sent |-> <<>>, receipt |-> None]
    ELSE EnsureChecked(check_approval(onchain, DEFAULT_MIN_AMOUNT), auto_approve, outcome)

\* B402.setup(token, auto_approve), client.py lines 282-296
setup(key, net, token, rpc_ok, onchain, auto_approve, outcome) ==
    IF key = ""
    THEN [raises |-> Some(Exc("ValueError", <<"PRIVATE_KEY environment variable not set">>)),
          ret |-> None, read |-> None, sent |-> <<>>, receipt |-> None]
    ELSE IF TokenAddress(net, token) = ""
    THEN [raises |-> Some(Exc("ValueError", <<"Token ", token, " not supported on ", net>>)),
          ret |-> None, read |-> None, sent |-> <<>>, receipt |-> None]
    ELSE ensure_approval(key, rpc_ok, onchain, auto_approve, outcome)

(***************************************************************************)
(* B402.pay, in the steps between its calls to the outside.                *)
(***************************************************************************)
\* lines 51-78: the key, the account, the token address and the amount
\* a prelude that goes on after a configuration error
GoOn(out) ==
    [exit |-> FALSE, out |-> NoOut, account |-> "", token_address |-> "",
     amount_wei |-> IntOf(Zero)]

Stop(out) ==
    [exit |-> TRUE, out |-> out, account |-> "", token_address |-> "",
     amount_wei |-> IntOf(Zero)]

\* line 78, given what the conversion of the amount gave
PayAmount(key, net, a, wei) ==
    IF wei.raises # ""
    THEN Stop(Caught(Exc(wei.raises, <<"cannot convert amount: ">> \o a.amount), a))
    ELSE [exit |-> FALSE, out |-> NoOut, account |-> AddressOf(key),
          token_address |-> TokenAddress(net, a.token), amount_wei |-> wei.val]

PayPrelude(key, net, a) ==
    IF key = ""
    THEN Stop(Returned(PaymentResult(FALSE, None,
                Some(<<"PRIVATE_KEY environment variable not set">>), "", a)))
    ELSE IF ~KeyIsValid(key)
    THEN Stop(Caught(Exc("ValueError", <<"The private key must be exactly 32 bytes long">>), a))
    ELSE IF TokenAddress(net, a.token) = ""
    THEN Stop(Returned(PaymentResult(FALSE, None,
                Some(<<"Token ", a.token, " not supported on ", net>>),
                AddressOf(key), a)))
    ELSE PayAmount(key, net, a, AMOUNT_WEI[a.amount])

\* lines 81-101: the allowance read and what pay does with it
AllowanceStep(rpc_ok, onchain, amount_wei, account, a) ==
    LET chk == check_approval(onchain, amount_wei)
    IN  IF ~rpc_ok
        THEN [next |-> "done", out |-> Caught(Exc("ConnectionError", <<"rpc request failed">>), a),
              is_approved |-> FALSE, current_allowance |-> IntOf(Zero)]
        ELSE IF ~chk[1] /\ ~a.auto_approve
        THEN [next |-> "done",
              out |-> Returned(PaymentResult(FALSE, None,
                         Some(InsufficientMsg(chk[2], amount_wei, a.token)), account, a)),
              is_approved |-> chk[1], current_allowance |-> chk[2]]
        ELSE [next |-> IF chk[1] THEN "sign" ELSE "approve", out |-> NoOut,
              is_approved |-> chk[1], current_allowance |-> chk[2]]

\* lines 108-131: the except clause around approve_token
ApproveStep(r, account, a) ==
    IF r.raises # None
    THEN [next |-> "done",
          out |-> Returned(PaymentResult(FALSE, None,
                     Some(AutoApproveFailedMsg(r.raises[1], a.token)), account, a))]
    ELSE [next |-> "sign", out |-> NoOut]

\* a pay that reports every verify that is not valid with one fixed message
VerifyStepGeneric(resp, account, a) ==
    IF resp.raises = None /\ resp.status = 200 /\ resp.json # None
       /\ resp.json[1].isValid = "true"
    THEN [next |-> "settle", out |-> NoOut]
    ELSE [next |-> "done",
          out |-> Returned(PaymentResult(FALSE, None, Some(<<"Payment verification failed">>),
                                         account, a))]

\* a pay that settles whatever verify answered
VerifyStepLax(resp, account, a) == [next |-> "settle", out |-> NoOut]

\* lines 150-181: what pay does with the verify response
VerifyStep(resp, account, a) ==
    IF resp.raises # None
    THEN [next |-> "done", out |-> Caught(resp.raises[1], a)]
    ELSE IF resp.status # 200
    THEN [next |-> "done",
          out |-> Returned(PaymentResult(FALSE, None,
                     Some(<<"Verify request failed: HTTP ">> \o SmallStr(resp.status)
                          \o <<" - ", resp.text>>), account, a))]
    ELSE IF resp.json = None
    THEN [next |-> "done", out |-> Caught(JsonError, a)]
    ELSE IF resp.json[1].isValid # "true"
    THEN LET d == resp.json[1]
             error_msg == IF d.invalidReason = None THEN <<"Invalid signature">>
                          ELSE d.invalidReason
         IN  [next |-> "done",
              out |-> Returned(PaymentResult(FALSE, None,
                         Some(error_msg \o <<" | Response: ">> \o ReprVerify(d)),
                         account, a))]
    ELSE [next |-> "settle", out |-> NoOut]

\* a pay that keeps only the success flag of the settle response
SettleStepFlagOnly(resp, account, a) ==
    IF resp.raises # None \/ resp.status # 200 \/ resp.json = None
    THEN [next |-> "done", out |-> Returned(PaymentResult(FALSE, None,
                                       Some(<<"Settlement failed">>), account, a))]
    ELSE [next |-> "done",
          out |-> Returned(PaymentResult(resp.json[1].success = "true", None,
                     IF resp.json[1].success = "true" THEN None
                     ELSE Some(<<"Settlement failed">>), account, a))]

\* a pay that posts settle again when the exchange failed
SettleStepRetry(resp, account, a) ==
    IF resp.raises # None \/ resp.status # 200
    THEN [next |-> "settle", out |-> NoOut]
    ELSE [next |-> "done",
          out |-> Returned(PaymentResult(TRUE, Some("0x1234"), None, account, a))]

\* lines 183-215: what pay does with the settle response
SettleStep(resp, account, a) ==
    IF resp.raises # None
    THEN [next |-> "done", out |-> Caught(resp.raises[1], a)]
    ELSE IF resp.status # 200
    THEN [next |-> "done",
          out |-> Returned(PaymentResult(FALSE, None,
                     Some(<<"Settle request failed: HTTP ">> \o SmallStr(resp.status)
                          \o <<" - ", resp.text>>), account, a))]
    ELSE IF resp.json = None
    THEN [next |-> "done", out |-> Caught(JsonError, a)]
    ELSE LET d == resp.json[1]
             reason == IF d.errorReason = None THEN <<"Unknown error">>
                       ELSE d.errorReason
             error_detail ==
                 IF d.success = "true" THEN None
                 ELSE IF IsEmptyDict(d) THEN Some(reason)
                 ELSE Some(reason \o <<" | Response: ">> \o ReprSettle(d))
         IN  [next |-> "done",
              out |-> Returned(PaymentResult(d.success = "true", d.transaction,
                                             error_detail, account, a))]

(***************************************************************************)
(* The state.                                                              *)
(***************************************************************************)
VARIABLES
    network,            \* B402.network, fixed at construction
    env_key,            \* os.environ["PRIVATE_KEY"]
    allowance,          \* the chain: allowance(payer, relayer) of the token
    pending,            \* the chain: an approval sent and not yet mined
    pc,                 \* where the running pay call stands
    args,               \* the arguments of the running pay call
    account,            \* locals of pay
    token_address,
    amount_wei,
    is_approved,
    current_allowance,
    requirements,
    payload,
    calls,              \* the calls to the outside made by the running call
    result,             \* the PaymentResult pay returned
    escaped,            \* the exception that left pay
    ncalls,             \* API calls made so far
    checked,            \* what the last B402.check_approval call gave
    setup_result        \* what the last B402.setup call gave and did

vars == <<network, env_key, allowance, pending, pc, args, account, token_address,
          amount_wei, is_approved, current_allowance, requirements, payload,
          calls, result, escaped, ncalls, checked, setup_result>>

chain == <<allowance, pending>>

locals == <<account, token_address, amount_wei, is_approved, current_allowance,
            requirements, payload>>

NoArgs == [amount |-> <<>>, token |-> "", recipient |-> "",
           timeout_seconds |-> 0, auto_approve |-> FALSE]

Call(op, arg) == [op |-> op, arg |-> arg]

Init ==
    /\ network \in Networks
    /\ env_key \in EnvKeys
    /\ allowance \in InitAllowances
    /\ pending = None
    /\ pc = "idle"
    /\ args = NoArgs
    /\ account = ""
    /\ token_address = ""
    /\ amount_wei = IntOf(Zero)
    /\ is_approved = FALSE
    /\ current_allowance = IntOf(Zero)
    /\ requirements = None
    /\ payload = None
    /\ calls = <<>>
    /\ result = None
    /\ escaped = None
    /\ ncalls = 0
    /\ checked = None
    /\ setup_result = None

\* pay(amount, token, recipient, timeout_seconds, auto_approve): lines 51-78
PayStart ==
    /\ pc = "idle"
    /\ ncalls < MaxCalls
    /\ \E amount \in Amounts, token \in TokenArgs, recipient \in Recipients,
          timeout \in TimeoutArgs, auto \in BOOLEAN :
       \E a \in {[amount |-> amount, token |-> token, recipient |-> recipient,
                  timeout_seconds |-> timeout, auto_approve |-> auto]} :
       \E pre \in {PayPrelude(env_key, network, a)} :
              /\ args' = a
              /\ account' = pre.account
              /\ token_address' = pre.token_address
              /\ amount_wei' = pre.amount_wei
              /\ result' = pre.out.result
              /\ escaped' = pre.out.escaped
              /\ pc' = IF pre.exit THEN "done" ELSE "allowance"
    /\ ncalls' = ncalls + 1
    /\ calls' = <<>>
    /\ checked' = None
    /\ setup_result' = None
    /\ is_approved' = FALSE
    /\ current_allowance' = IntOf(Zero)
    /\ requirements' = None
    /\ payload' = None
    /\ UNCHANGED <<network, env_key, chain>>

\* lines 81-101: check_approval(..., min_amount=amount_wei)
PayCheckAllowance ==
    /\ pc = "allowance"
    /\ \E rpc_ok \in BOOLEAN :
       \E st \in {AllowanceStep(rpc_ok, allowance, amount_wei, account, args)} :
              /\ is_approved' = st.is_approved
              /\ current_allowance' = st.current_allowance
              /\ result' = st.out.result
              /\ escaped' = st.out.escaped
              /\ pc' = st.next
              /\ calls' = Append(calls,
                     Call("allowance", IF rpc_ok THEN Some(allowance) ELSE None))
    /\ UNCHANGED <<network, env_key, setup_result, chain, args, account, token_address,
                   amount_wei, requirements, payload, ncalls, checked>>

\* lines 108-131: approve_token(..., amount=approval_amount)
PayApprove ==
    /\ pc = "approve"
    /\ \E outcome \in ApproveOutcomes :
       \E amount \in {ApprovalAmount(amount_wei)} :
       \E r \in {approve_token(amount, outcome)} :
       \E st \in {ApproveStep(r, account, args)} :
              /\ calls' = calls
                    \o (IF r.sent THEN <<Call("approve_send", <<amount>>)>> ELSE <<>>)
                    \o (IF r.receipt # None
                        THEN <<Call("approve_receipt", r.receipt)>> ELSE <<>>)
              /\ allowance' = IF r.receipt = Some("status 1") THEN amount ELSE allowance
              /\ pending' = IF r.sent /\ r.receipt = None THEN Some(amount) ELSE pending
              /\ result' = st.out.result
              /\ escaped' = st.out.escaped
              /\ pc' = st.next
    /\ UNCHANGED <<network, env_key, setup_result, args, locals, ncalls, checked>>

\* lines 134-144: the requirements and process_payment
PaySign ==
    /\ pc = "sign"
    /\ \E now \in Clock, nonce \in Nonces :
       \E req \in {Requirements(token_address, args.recipient, amount_wei,
                                args.timeout_seconds, network)} :
       \E r \in {process_payment(req, env_key, now, nonce)} :
       \E out \in {IF r.raises # None THEN Caught(r.raises[1], args) ELSE NoOut} :
              /\ requirements' = Some(req)
              /\ payload' = r.payload
              /\ result' = out.result
              /\ escaped' = out.escaped
              /\ pc' = IF r.raises # None THEN "done" ELSE "verify"
    /\ calls' = Append(calls, Call("sign", <<>>))
    /\ UNCHANGED <<network, env_key, setup_result, chain, args, account, token_address,
                   amount_wei, is_approved, current_allowance, ncalls, checked>>

\* lines 150-181: POST /verify
PayVerify ==
    /\ pc = "verify"
    /\ \E resp \in VerifyResponses :
       \E st \in {VerifyStep(resp, account, args)} :
              /\ calls' = Append(calls, Call("verify",
                     <<payload[1], requirements[1], resp>>))
              /\ result' = st.out.result
              /\ escaped' = st.out.escaped
              /\ pc' = st.next
    /\ UNCHANGED <<network, env_key, setup_result, chain, args, locals, ncalls, checked>>

\* lines 183-215: POST /settle
PaySettle ==
    /\ pc = "settle"
    /\ \E resp \in SettleResponses :
       \E st \in {SettleStep(resp, account, args)} :
              /\ calls' = Append(calls, Call("settle",
                     <<payload[1], requirements[1], resp>>))
              /\ result' = st.out.result
              /\ escaped' = st.out.escaped
              /\ pc' = st.next
    /\ UNCHANGED <<network, env_key, setup_result, chain, args, locals, ncalls, checked>>

\* the caller has the result; the next call may start
PayReturn ==
    /\ pc = "done"
    /\ pc' = "idle"
    /\ args' = NoArgs
    /\ account' = ""
    /\ token_address' = ""
    /\ amount_wei' = IntOf(Zero)
    /\ is_approved' = FALSE
    /\ current_allowance' = IntOf(Zero)
    /\ requirements' = None
    /\ payload' = None
    /\ calls' = <<>>
    /\ result' = None
    /\ escaped' = None
    /\ UNCHANGED <<network, env_key, setup_result, chain, ncalls, checked>>

\* B402.check_approval(token), client.py lines 233-258: it raises ValueError
\* for a missing key or an unsupported token and else returns
\* check_approval(...) with the default min_amount
CheckApprovalCall ==
    /\ pc = "idle"
    /\ ncalls < MaxCalls
    /\ \E token \in TokenArgs, rpc_ok \in BOOLEAN :
          checked' = Some(
            IF env_key = ""
            THEN [raises |-> Some(Exc("ValueError", <<"PRIVATE_KEY environment variable not set">>)),
                  ret |-> None]
            ELSE IF TokenAddress(network, token) = ""
            THEN [raises |-> Some(Exc("ValueError", <<"Token ", token, " not supported on ", network>>)),
                  ret |-> None]
            ELSE IF ~KeyIsValid(env_key)
            THEN [raises |-> Some(Exc("ValueError", <<"The private key must be exactly 32 bytes long">>)),
                  ret |-> None]
            ELSE IF ~rpc_ok
            THEN [raises |-> Some(Exc("ConnectionError", <<"rpc request failed">>)),
                  ret |-> None]
            ELSE [raises |-> None,
                  ret |-> Some(check_approval(allowance, DEFAULT_MIN_AMOUNT))])
    /\ ncalls' = ncalls + 1
    /\ setup_result' = None
    /\ UNCHANGED <<network, env_key, chain, pc, args, locals, calls, result, escaped>>

\* B402.setup(token, auto_approve), client.py lines 260-296
SetupCall ==
    /\ pc = "idle"
    /\ ncalls < MaxCalls
    /\ \E token \in TokenArgs, rpc_ok \in BOOLEAN, auto \in BOOLEAN,
          outcome \in ApproveOutcomes :
       \E r \in {setup(env_key, network, token, rpc_ok, allowance, auto, outcome)} :
          /\ setup_result' = Some([token |-> token, auto_approve |-> auto,
                                   raises |-> r.raises, ret |-> r.ret,
                                   read |-> r.read, sent |-> r.sent])
          /\ allowance' = IF r.receipt = Some("status 1") THEN r.sent[1] ELSE allowance
          /\ pending' = IF r.sent # <<>> /\ r.receipt = None THEN Some(r.sent[1])
                        ELSE pending
    /\ ncalls' = ncalls + 1
    /\ checked' = None
    /\ UNCHANGED <<network, env_key, pc, args, locals, calls, result, escaped>>

\* the chain mines an approval whose confirmation was not waited out
ChainMine ==
    /\ pending # None
    /\ allowance' = pending[1]
    /\ pending' = None
    /\ UNCHANGED <<network, env_key, setup_result, pc, args, locals, calls, result, escaped,
                   ncalls, checked>>

Next ==
    \/ PayStart
    \/ PayCheckAllowance
    \/ PayApprove
    \/ PaySign
    \/ PayVerify
    \/ PaySettle
    \/ PayReturn
    \/ CheckApprovalCall
    \/ SetupCall
    \/ ChainMine

Spec == Init /\ [][Next]_vars

(***************************************************************************)
(* The properties.  calls is the record of what the running call of pay    *)
(* has done to the outside, in order; it is read when the call stands at   *)
(* "done" with its result, or anywhere on the way.                         *)
(***************************************************************************)
Ops == {calls[i].op : i \in DOMAIN calls}

Count(op) == Cardinality({i \in DOMAIN calls : calls[i].op = op})

\* the verify response is HTTP 200 with a truthy isValid
VerifyValid(resp) ==
    /\ resp.raises = None
    /\ resp.status = 200
    /\ resp.json # None
    /\ resp.json[1].isValid = "true"

\* the settle exchange itself failed: a network error or a status other
\* than 200
SettleExchangeFailed(resp) == resp.raises # None \/ resp.status # 200

\* the allowance read by the running call is v
AllowanceRead(v) ==
    \E i \in DOMAIN calls : calls[i].op = "allowance" /\ calls[i].arg = Some(v)

\* the allowance read by the running call is below the amount
ReadBelowAmount ==
    \E i \in DOMAIN calls :
        /\ calls[i].op = "allowance"
        /\ calls[i].arg # None
        /\ ~IntGe(calls[i].arg[1], amount_wei)

\* y occurs in s, and x occurs in s before it
MentionsInOrder(s, x, y) ==
    \E i, j \in 1..Len(s) :
        /\ i + Len(x) <= j
        /\ j + Len(y) - 1 <= Len(s)
        /\ SubSeq(s, i, i + Len(x) - 1) = x
        /\ SubSeq(s, j, j + Len(y) - 1) = y

\* the place of an operation in the pipeline of pay
Stage(op) ==
    CASE op = "allowance"       -> 1
      [] op = "approve_send"    -> 2
      [] op = "approve_receipt" -> 3
      [] op = "sign"            -> 4
      [] op = "verify"          -> 5
      [] op = "settle"          -> 6

\* C1: settle is posted only after the verify of the same call answered
\* HTTP 200 with a truthy isValid, with the payload and the requirements
\* that went to verify; after any other verify answer no settle is posted
C1_SettleOnlyAfterValidVerify ==
    /\ \A i \in DOMAIN calls :
          calls[i].op = "settle" =>
             \E j \in 1..(i - 1) :
                /\ calls[j].op = "verify"
                /\ VerifyValid(calls[j].arg[3])
                /\ calls[j].arg[1] = calls[i].arg[1]
                /\ calls[j].arg[2] = calls[i].arg[2]
    /\ \A j \in DOMAIN calls :
          calls[j].op = "verify" /\ ~VerifyValid(calls[j].arg[3])
             => pc = "done" /\ "settle" \notin Ops

C1_Witness ==
    /\ pc = "done"
    /\ Len(calls) >= 2
    /\ calls[Len(calls)].op = "settle"
    /\ calls[Len(calls) - 1].op = "verify"
    /\ VerifyValid(calls[Len(calls) - 1].arg[3])

\* C2: the operations of one call of pay come in the order allowance,
\* approval, signing, verify, settle, each at most once; after a settle,
\* failed or not, the call does nothing more
C2_StraightLine ==
    /\ \A i, j \in DOMAIN calls : i < j => Stage(calls[i].op) < Stage(calls[j].op)
    /\ "settle" \in Ops => pc = "done"

C2_Witness ==
    /\ pc = "done"
    /\ Len(calls) >= 4
    /\ calls[Len(calls)].op = "settle"
    /\ SettleExchangeFailed(calls[Len(calls)].arg[3])
    /\ Count("verify") = 1
    /\ Count("settle") = 1
    /\ Count("sign") = 1

\* C3: when the allowance read is at least the amount in base units, pay
\* sends no approval transaction, whatever auto_approve is
C3_NoApprovalWhenSufficient ==
    \A i \in DOMAIN calls :
        /\ calls[i].op = "allowance"
        /\ calls[i].arg # None
        /\ IntGe(calls[i].arg[1], amount_wei)
        => /\ "approve_send" \notin Ops
           /\ "approve_receipt" \notin Ops
           /\ pc # "approve"

C3_Witness ==
    /\ pc = "done"
    /\ args.auto_approve
    /\ AllowanceRead(IntOf(<<0, 0, 0, 0, 0, 10>>))
    /\ amount_wei = IntOf(<<0, 0, 0, 0, 0, 10>>)
    /\ "settle" \in Ops
    /\ "approve_send" \notin Ops

\* C4: when the allowance read is below the amount and auto_approve is
\* false, pay ends with success=false and an error that gives the current
\* and the required allowance, having sent no approval, signed nothing and
\* posted neither verify nor settle
C4_InsufficientWithoutAutoApprove ==
    ReadBelowAmount /\ ~args.auto_approve =>
        /\ pc = "done"
        /\ Len(calls) = 1
        /\ escaped = None
        /\ result # None
        /\ ~result[1].success
        /\ result[1].error # None
        /\ MentionsInOrder(result[1].error[1],
                           Readable(calls[1].arg[1]), Readable(amount_wei))

C4_Witness ==
    /\ pc = "done"
    /\ ~args.auto_approve
    /\ AllowanceRead(IntOf(<<999, 999, 999, 999, 999, 9>>))
    /\ amount_wei = IntOf(<<0, 0, 0, 0, 0, 10>>)
    /\ result # None
    /\ ~result[1].success

\* the approval of the running call was mined with status 1
ApprovalSucceeded ==
    \E i \in DOMAIN calls :
        calls[i].op = "approve_receipt" /\ calls[i].arg = Some("status 1")

\* C5: when the allowance read is below the amount, auto_approve is true
\* and the approval transaction succeeds, one approval transaction is sent,
\* its receipt is had before the authorization is signed and before verify
\* is posted, and the call goes on to signing, to verify when the signing
\* gave a payload and to settle when verify answered valid
C5_AutoApproveThenPay ==
    /\ \A i, k \in DOMAIN calls :
          calls[i].op = "approve_send" /\ calls[k].op \in {"sign", "verify"} /\ i < k
             => \E j \in (i + 1)..(k - 1) : calls[j].op = "approve_receipt"
    /\ ReadBelowAmount /\ args.auto_approve /\ ApprovalSucceeded =>
          /\ Count("approve_send") = 1
          /\ pc \in {"sign", "verify", "settle", "done"}
          /\ pc = "done" => "sign" \in Ops
          /\ pc = "done" /\ payload # None => "verify" \in Ops
          /\ pc = "done" /\ (\E j \in DOMAIN calls :
                                calls[j].op = "verify" /\ VerifyValid(calls[j].arg[3]))
                => "settle" \in Ops

C5_Witness ==
    /\ pc = "done"
    /\ ReadBelowAmount
    /\ args.auto_approve
    /\ ApprovalSucceeded
    /\ Count("approve_send") = 1
    /\ "settle" \in Ops
    /\ result # None
    /\ result[1].success

\* C6: a PaymentResult that pay returns has, when success is true, a
\* tx_hash and no error, and when success is false, an error
C6_ResultShape ==
    pc = "done" /\ result # None =>
        /\ result[1].success => result[1].tx_hash # None /\ result[1].error = None
        /\ ~result[1].success => result[1].error # None

\* the call ended on a settle answered HTTP 200 with a truthy success
SettledOk ==
    /\ calls # <<>>
    /\ calls[Len(calls)].op = "settle"
    /\ ~SettleExchangeFailed(calls[Len(calls)].arg[3])
    /\ calls[Len(calls)].arg[3].json # None
    /\ calls[Len(calls)].arg[3].json[1].success = "true"

\* C7: no exception leaves pay; a call that ends has a PaymentResult, which
\* has success=true only after a settle that answered so, and else has
\* success=false and an error that is not empty
C7_NoExceptionEscapes ==
    /\ escaped = None
    /\ pc = "done" =>
          /\ result # None
          /\ result[1].success => SettledOk
          /\ ~result[1].success => result[1].error # None /\ result[1].error[1] # <<>>

C7_Witness ==
    /\ pc = "done"
    /\ calls # <<>>
    /\ calls[Len(calls)].op = "verify"
    /\ calls[Len(calls)].arg[3].raises = Some(NetworkError)
    /\ result # None
    /\ ~result[1].success
    /\ result[1].error = Some(NetworkError.msg)

\* what pay returns when the call ends at verify, before any settle
ResultsWithoutSettle ==
    {VerifyStep(r, account, args).out.result : r \in VerifyResponses}

\* C8: when the settle exchange itself failed, what pay returns is neither
\* a success nor a result that a call without any settle returns
C8_UnknownOutcomeDistinct ==
    /\ pc = "done"
    /\ calls # <<>>
    /\ calls[Len(calls)].op = "settle"
    /\ SettleExchangeFailed(calls[Len(calls)].arg[3])
    => /\ result # None
       /\ ~result[1].success
       /\ result \notin ResultsWithoutSettle

\* the error is the one of the missing credential
NamesCredential(error) == error = Some(<<"PRIVATE_KEY environment variable not set">>)

\* the error has the token symbol in it
NamesToken(error, token) ==
    error # None /\ \E i \in DOMAIN error[1] : error[1][i] = token

\* the running call has a configuration error
Unsupported == pc # "idle" /\ TokenAddress(network, args.token) = ""

MissingKey == pc # "idle" /\ env_key = ""

C10_ApprovedIffAllowance ==
    /\ Count("allowance") = 1 /\ calls[1].arg # None =>
          /\ current_allowance = calls[1].arg[1]
          /\ is_approved <=> IntGe(current_allowance, amount_wei)
    /\ checked # None /\ checked[1].ret # None =>
          (checked[1].ret[1][1] <=>
              (~checked[1].ret[1][2].neg /\ checked[1].ret[1][2].mag # Zero))

\* the allowance is above 0
Positive(x) == ~x.neg /\ x.mag # Zero

\* C11: a call of setup (ensure_approval) that read the allowance sends at
\* most one approval transaction: none and approved=true, tx_hash=None when
\* the allowance is sufficient (above 0, no minimum being given); none and
\* approved=false, tx_hash=None when it is not and auto_approve is false;
\* one, and approved=true with its hash, when it is not and auto_approve is
\* true
C11_SetupZeroOrOneApproval ==
    setup_result # None /\ setup_result[1].read # None =>
        /\ Len(setup_result[1].sent) <= 1
        /\ Positive(setup_result[1].read[1]) =>
              /\ setup_result[1].ret # None
              /\ setup_result[1].ret[1].approved
              /\ setup_result[1].ret[1].tx_hash = None
              /\ setup_result[1].sent = <<>>
        /\ ~Positive(setup_result[1].read[1]) /\ ~setup_result[1].auto_approve =>
              /\ setup_result[1].ret # None
              /\ ~setup_result[1].ret[1].approved
              /\ setup_result[1].ret[1].tx_hash = None
              /\ setup_result[1].sent = <<>>
        /\ ~Positive(setup_result[1].read[1]) /\ setup_result[1].auto_approve
              /\ setup_result[1].raises = None =>
              /\ Len(setup_result[1].sent) = 1
              /\ setup_result[1].ret[1].approved
              /\ setup_result[1].ret[1].tx_hash # None

\* 10_000 * 10^18
CapValue == IntOf(<<0, 0, 0, 0, 0, 0, 0, 10>>)

\* C12: an approval transaction that pay sends approves exactly the larger
\* of the amount in base units and 10_000 * 10^18, which is not 2^256 - 1
\* and not below the amount
C12_ApprovalAmountCapped ==
    \A i \in DOMAIN calls :
        calls[i].op = "approve_send" =>
            /\ calls[i].arg[1] = (IF IntGe(amount_wei, CapValue) THEN amount_wei
                                  ELSE CapValue)
            /\ calls[i].arg[1] # IntOf(UINT256_MAX)
            /\ IntGe(calls[i].arg[1], amount_wei)
            /\ IntGe(calls[i].arg[1], CapValue)

C12_Witness ==
    /\ amount_wei = IntOf(<<0, 0, 0, 0, 0, 0, 0, 20>>)
    /\ \E i \in DOMAIN calls :
          calls[i].op = "approve_send" /\ calls[i].arg[1] = amount_wei
    /\ \E i \in DOMAIN calls : calls[i].op = "approve_receipt"

\* the authorization of the payload that process_payment returned
Authorization == payload[1].payload.authorization

\* C13: an authorization made for maxTimeoutSeconds = t, t >= 1, has
\* validBefore - validAfter = t in the fields it emits
C13_WindowEqualsTimeout ==
    payload # None /\ requirements[1].maxTimeoutSeconds >= 1 =>
        SmallInt(Authorization.validBefore) - SmallInt(Authorization.validAfter)
            = requirements[1].maxTimeoutSeconds

\* the running call ended on this verify response
EndedAtVerify(resp) ==
    /\ pc = "done"
    /\ calls # <<>>
    /\ calls[Len(calls)].op = "verify"
    /\ calls[Len(calls)].arg[3] = resp

\* C14: when verify does not answer valid, pay ends with success=false;
\* after HTTP 200 with a falsy isValid and an invalidReason the error has
\* that reason in it unchanged, and after another status the error has the
\* status code and the body in it
C14_VerifyFailureVerbatim ==
    \A resp \in VerifyResponses :
        EndedAtVerify(resp) /\ ~VerifyValid(resp) =>
            /\ escaped = None
            /\ result # None
            /\ ~result[1].success
            /\ result[1].error # None
            /\ resp.raises = None /\ resp.status = 200 /\ resp.json # None
               /\ resp.json[1].invalidReason # None =>
                  \E i \in DOMAIN result[1].error[1] :
                      result[1].error[1][i] = resp.json[1].invalidReason[1]
            /\ resp.raises = None /\ resp.status # 200 =>
                  MentionsInOrder(result[1].error[1], SmallStr(resp.status),
                                  <<resp.text>>)

C14_Witness ==
    /\ EndedAtVerify(Http(200, "ok", Some(VerifyBody("false", Some("expired")))))
    /\ result # None
    /\ ~result[1].success
    /\ result[1].error # None
    /\ result[1].error[1][1] = "expired"

\* the running call ended on this settle response
EndedAtSettle(resp) ==
    /\ pc = "done"
    /\ calls # <<>>
    /\ calls[Len(calls)].op = "settle"
    /\ calls[Len(calls)].arg[3] = resp

\* C15: after a settle answered HTTP 200 with a JSON body, the result has
\* success=true, the transaction as tx_hash and no error when the body has
\* success true and a transaction; success=false and an error with the
\* errorReason in it when success is false or missing; and in both cases
\* the signer's address as payer and the caller's recipient, amount and token
C15_SettleResponseMapped ==
    \A resp \in SettleResponses :
        EndedAtSettle(resp) /\ resp.raises = None /\ resp.status = 200
        /\ resp.json # None =>
            /\ result # None
            /\ resp.json[1].success = "true" /\ resp.json[1].transaction # None =>
                  /\ result[1].success
                  /\ result[1].tx_hash = resp.json[1].transaction
                  /\ result[1].error = None
            /\ resp.json[1].success # "true" =>
                  /\ ~result[1].success
                  /\ result[1].error # None
                  /\ resp.json[1].errorReason # None =>
                        \E i \in DOMAIN result[1].error[1] :
                            result[1].error[1][i] = resp.json[1].errorReason[1]
            /\ result[1].payer = AddressOf(env_key)
            /\ result[1].recipient = args.recipient
            /\ result[1].amount = args.amount
            /\ result[1].token = args.token

C15_Witness ==
    /\ EndedAtSettle(Http(200, "ok", Some(SettleBody("true", Some("0x1234"), None))))
    /\ result # None
    /\ result[1].success
    /\ result[1].tx_hash = Some("0x1234")
    /\ result[1].payer = "0xPayer"

\* a decimal string: [sign] digits [. digits], with at most 18 decimals
IsDecimal18(s) ==
    /\ Unsigned(s) # <<>>
    /\ \A i \in DOMAIN Unsigned(s) : IsDigit(Unsigned(s)[i]) \/ Unsigned(s)[i] = "."
    /\ Cardinality({i \in DOMAIN Unsigned(s) : Unsigned(s)[i] = "."}) <= 1
    /\ \E i \in DOMAIN Unsigned(s) : IsDigit(Unsigned(s)[i])
    /\ FirstIdx(Unsigned(s), {"."}) # 0
          => Len(Unsigned(s)) - FirstIdx(Unsigned(s), {"."}) <= 18

\* the digits of a decimal string, its point taken out
DigitsOnly(u) == SelectSeq(u, IsDigit)

\* how many digits follow the point
Decimals(u) == IF FirstIdx(u, {"."}) = 0 THEN 0 ELSE Len(u) - FirstIdx(u, {"."})

\* amount * 10^18, exactly, for a decimal string of at most 18 decimals
ExactWei(s) ==
    SInt(IsNeg(s),
         MulPow10(DigitsToNat(DigitsOnly(Unsigned(s))), 18 - Decimals(Unsigned(s))))

\* pay has computed amount_wei for the running call
AmountComputed ==
    pc \in {"allowance", "approve", "sign", "verify", "settle"}
    \/ (pc = "done" /\ calls # <<>>)

\* C17: the amount in base units that pay computes from a decimal string of
\* at most 18 decimals is amount * 10^18 exactly (so that reading it back at
\* 18 decimals gives the amount again), and it is the maxAmountRequired of
\* the requirements and the value of the authorization
C17_AmountConversionExact ==
    AmountComputed /\ IsDecimal18(args.amount) =>
        /\ amount_wei = ExactWei(args.amount)
        /\ requirements # None =>
              requirements[1].maxAmountRequired = IntStr(ExactWei(args.amount))
        /\ payload # None => Authorization.value = IntStr(ExactWei(args.amount))

\* the running call took the auto-approve path and is past the approval
ApprovalAttempted ==
    /\ ReadBelowAmount
    /\ args.auto_approve
    /\ pc \in {"sign", "verify", "settle", "done"}

\* the approval transaction was mined and reverted
ApprovalReverted ==
    \E i \in DOMAIN calls :
        calls[i].op = "approve_receipt" /\ calls[i].arg = Some("status 0")

\* what an approval that raised says of its failure
ApprovalCauses ==
    { approve_token(DEFAULT_CAP, outcome).raises[1].msg :
          outcome \in {"rpc_error", "wait_timeout"} }

\* C18: when the approval transaction of the auto-approve path fails, by a
\* revert, by a timeout of the wait for its receipt or by an error before
\* it is sent, pay ends with success false and an error, which for an
\* approval that raised contains what was raised, and nothing is signed and
\* neither verify nor settle is posted
C18_ApprovalFailureTerminal ==
    ApprovalAttempted /\ ~ApprovalSucceeded =>
        /\ pc = "done"
        /\ Ops \cap {"sign", "verify", "settle"} = {}
        /\ result # None
        /\ ~result[1].success
        /\ result[1].error # None
        /\ ~ApprovalReverted =>
              \E i \in DOMAIN result[1].error[1] :
                  \E c \in ApprovalCauses :
                      /\ i + Len(c) - 1 <= Len(result[1].error[1])
                      /\ SubSeq(result[1].error[1], i, i + Len(c) - 1) = c

\* C20: the authorization of every payload that process_payment returns,
\* whatever timeout_seconds pay was given (0 and negative values too), has
\* validBefore above validAfter
C20_ValidBeforeAboveValidAfter ==
    payload # None =>
        SmallInt(Authorization.validBefore) > SmallInt(Authorization.validAfter)

\* the allowance read by the running call covers the amount
ReadCoversAmount ==
    \E i \in DOMAIN calls :
        /\ calls[i].op = "allowance"
        /\ calls[i].arg # None
        /\ IntGe(calls[i].arg[1], amount_wei)

\* the running call sent an approval of at least the amount and had its
\* receipt, of the status given
ApprovalMined(status) ==
    \E i, j \in DOMAIN calls :
        /\ i < j
        /\ calls[i].op = "approve_send"
        /\ IntGe(calls[i].arg[1], amount_wei)
        /\ calls[j].op = "approve_receipt"
        /\ calls[j].arg = Some(status)

\* C21: when pay has posted verify or settle, the allowance it read covered
\* the amount or an approval of at least the amount was sent and confirmed
\* (mined with status 1) earlier in the same call; the allowance is read
\* once in a call, before any approval, and not again
C21_AllowanceAtRelayTime ==
    /\ Count("allowance") <= 1
    /\ \A i, j \in DOMAIN calls :
          calls[i].op = "approve_send" /\ calls[j].op = "allowance" => j < i
    /\ Ops \cap {"verify", "settle"} # {} =>
          /\ Count("allowance") = 1
          /\ ReadCoversAmount \/ ApprovalMined("status 1")

====
